---- MODULE Spec2Model ----
(***************************************************************************)
(* Arctic Navigation Quicklook (scripts/interactive_quicklook.py).         *)
(*                                                                         *)
(* The script is modelled as a state machine: module start-up (path        *)
(* resolution, load_data, DAYS, widget construction, the first             *)
(* _make_timerange, the template with its first render of view) followed   *)
(* by the widget events of the served dashboard.  The helper functions     *)
(* (_sel_day, _prep_day, _filter_timerange, _ds_for_view, build_map, ...)  *)
(* are operators.                                                          *)
(*                                                                         *)
(* Time is a tick counter.  A day has SecPerDay seconds of TicksPerSec     *)
(* ticks each, so that the sub-second resolution of the time index is      *)
(* finer than the second resolution of the strings _sel_day slices with.   *)
(* A day label ("%Y-%m-%d") is the number of the day.                      *)
(***************************************************************************)
EXTENDS Integers, Sequences, FiniteSets, TLC

\* ------------------------------------------------------------------ bounds
NumDays == 2
SecPerDay == 2
TicksPerSec == 2
\* a navigation file holds at most MaxLen samples, within MaxSpan ticks
MaxLen == 4
MaxSpan == 4
\* a sea-ice file holds at most MaxSicLen time steps
MaxSicLen == 2

\* ------------------------------------------------------- program constants
SicMax == 100
CoarsenDefault == 20
PointsizeDefault == 5
\* alpha in percent: 0.9
AlphaDefault == 90
SecPerHour == 3600

\* None, where the code holds None in place of a number
NoTime == 0 - 1
NoneInt == 0 - 1
NoDay == 0 - 1

DayLen == SecPerDay * TicksPerSec
Days == 0 .. (NumDays - 1)
Times == 0 .. (NumDays * DayLen - 1)

\* ---------------------------------------------------------------- numbers
\* Floating point values are exact rationals n/d in lowest terms; NaN is 0/0.
NaN == [n |-> 0, d |-> 0]

IsNaN(r) == r.d = 0

Abs(i) == IF i < 0 THEN 0 - i ELSE i

RECURSIVE Gcd(_, _)
Gcd(a, b) == IF b = 0 THEN a ELSE Gcd(b, a % b)

Rat(n, d) ==
    LET g == Gcd(Abs(n), d)
    IN  [n |-> n \div g, d |-> d \div g]

RatAdd(a, b) == Rat(a.n * b.d + b.n * a.d, a.d * b.d)

RatLeqInt(r, i) == (~IsNaN(r)) /\ r.n <= i * r.d

RECURSIVE RatSum(_)
RatSum(s) == IF s = <<>> THEN Rat(0, 1) ELSE RatAdd(Head(s), RatSum(Tail(s)))

\* numpy nanmean: the mean of the values that are not NaN, NaN if there is none
nanmean(s) ==
    LET valid == SelectSeq(s, LAMBDA r : ~IsNaN(r))
        t == RatSum(valid)
    IN  IF valid = <<>> THEN NaN ELSE Rat(t.n, t.d * Len(valid))

RECURSIVE IntSum(_)
IntSum(s) == IF s = <<>> THEN 0 ELSE Head(s) + IntSum(Tail(s))

SeqMin(s) == CHOOSE x \in {s[i] : i \in 1 .. Len(s)} : \A j \in 1 .. Len(s) : x <= s[j]

SeqMax(s) == CHOOSE x \in {s[i] : i \in 1 .. Len(s)} : \A j \in 1 .. Len(s) : x >= s[j]

\* xarray's mean of datetime64 values: the offsets from the minimum are
\* averaged as floats and cast back, which truncates
datetime_mean(ts, offset) == offset + (IntSum([i \in 1 .. Len(ts) |-> ts[i] - offset]) \div Len(ts))

\* ------------------------------------------------------------------- time
\* strftime("%Y-%m-%d") of a timestamp
strftime_day(t) == t \div DayLen

\* pandas' bounds of a partial date string used as a slice bound: the left bound
\* of f"{day}T00:00" is the first tick of the day; the right bound of
\* f"{day}T23:59:59" is the last tick of the day's last second
day_lower(day) == day * DayLen

day_upper_exact(day) == day * DayLen + (SecPerDay - 1) * TicksPerSec

day_upper(day) == day * DayLen + (SecPerDay - 1) * TicksPerSec + (TicksPerSec - 1)

\* .sel(time=slice(lo, hi)) on a monotonic time index: both bounds inclusive
sel_time_slice(ds, lo, hi) == SelectSeq(ds, LAMBDA r : lo <= r.time /\ r.time <= hi)

\* ------------------------------------------------------------ input files
\* the measurement at a tick (some are missing)
LonAt(t) == IF t % 3 = 2 THEN NaN ELSE Rat(10 + 7 * t, 1)

NavFileOf(ts) == [i \in 1 .. Len(ts) |-> [time |-> ts[i], lon |-> LonAt(ts[i])]]

StrictlyIncreasing(ts) == \A i \in 1 .. (Len(ts) - 1) : ts[i] < ts[i + 1]

TimeSeqs(S, maxlen) ==
    UNION {{ts \in [1 .. n -> S] : StrictlyIncreasing(ts)} : n \in 0 .. maxlen}

RECURSIVE SortedSeq(_)
SortedSeq(S) ==
    IF S = {} THEN <<>>
    ELSE LET m == CHOOSE x \in S : \A y \in S : x <= y
         IN  <<m>> \o SortedSeq(S \ {m})

\* the sets of up to MaxLen ticks that begin at tick t and span less than MaxSpan
TickSetsFrom(t) ==
    {{t} \cup R : R \in {X \in SUBSET {u \in Times : t < u /\ u < t + MaxSpan} :
                           Cardinality(X) < MaxLen}}

\* navigation files: a monotonic time coordinate of up to MaxLen samples
NavFiles ==
    {<<>>} \cup {NavFileOf(SortedSeq(T)) : T \in UNION {TickSetsFrom(t) : t \in Times}}

SicRaw == {Rat(0 - 5, 1), Rat(50, 1), Rat(150, 1)}

\* one step at the start of each day, and a second one in the first day
SicTimes == {d * DayLen : d \in Days} \cup {TicksPerSec}

\* sea-ice files: up to MaxSicLen time steps of one grid cell
SicFiles ==
    UNION {{[i \in 1 .. Len(ts) |-> [time |-> ts[i], sic |-> vs[i]]] :
              vs \in [1 .. Len(ts) -> SicRaw]} : ts \in TimeSeqs(SicTimes, MaxSicLen)}

\* the files the path and widget scenarios run on: samples on both sides of
\* the first midnight; two sea-ice steps in the first day, one of them a flag value
RefNav == NavFileOf(<<DayLen - 2, DayLen - 1, DayLen>>)

RefSic == <<[time |-> 0, sic |-> Rat(50, 1)], [time |-> TicksPerSec, sic |-> Rat(150, 1)]>>

\* ---------------------------------------------------------------- helpers
\* hour-of-day of load_data: (hour*3600 + minute*60 + second) / 3600
hour_of_day(t) == Rat((t % DayLen) \div TicksPerSec, SecPerHour)

_sel_day_exact(ds, day) == sel_time_slice(ds, day_lower(day), day_upper_exact(day))

_sel_day(ds, day) == sel_time_slice(ds, day_lower(day), day_upper(day))

\* one block of ds.coarsen(time=k).mean(): the coordinates time and hour_of_day
\* and the data variable are averaged
block_mean(blk, offset) ==
    [time |-> datetime_mean([i \in 1 .. Len(blk) |-> blk[i].time], offset),
     hour_of_day |-> nanmean([i \in 1 .. Len(blk) |-> blk[i].hour_of_day]),
     lon |-> nanmean([i \in 1 .. Len(blk) |-> blk[i].lon])]

\* boundary="pad": a ragged last block is kept
coarsen_pad_mean(ds, k) ==
    LET n == (Len(ds) + k - 1) \div k
        hi(i) == IF i * k > Len(ds) THEN Len(ds) ELSE i * k
        offset == IF ds = <<>> THEN 0 ELSE SeqMin([i \in 1 .. Len(ds) |-> ds[i].time])
    IN  [i \in 1 .. n |-> block_mean(SubSeq(ds, (i - 1) * k + 1, hi(i)), offset)]

\* ds.coarsen(time=k, boundary="trim").mean(): the first (n div k) blocks of k
coarsen_trim_mean(ds, k) ==
    LET n == Len(ds) \div k
        kept == SubSeq(ds, 1, n * k)
        offset == IF kept = <<>> THEN 0 ELSE SeqMin([i \in 1 .. Len(kept) |-> kept[i].time])
    IN  [i \in 1 .. n |-> block_mean(SubSeq(kept, (i - 1) * k + 1, i * k), offset)]

_prep_day(ds, day, coarsen) ==
    LET ds_day == _sel_day(ds, day)
    IN  IF coarsen # NoneInt /\ coarsen # 0 /\ coarsen > 1
        THEN coarsen_trim_mean(ds_day, coarsen)
        ELSE ds_day

\* the lower bound read as a time of day counted from the slice's first record
_filter_timerange_relative(ds_day, t_range) ==
    IF t_range = <<>> \/ t_range[1] = NoTime \/ t_range[2] = NoTime
    THEN ds_day
    ELSE IF ds_day = <<>> THEN ds_day
         ELSE sel_time_slice(ds_day, ds_day[1].time + (t_range[1] % DayLen), t_range[2])

_filter_timerange(ds_day, t_range) ==
    IF t_range = <<>> \/ t_range[1] = NoTime \/ t_range[2] = NoTime
    THEN ds_day
    ELSE sel_time_slice(ds_day, t_range[1], t_range[2])

\* the window applied to the samples before they are averaged
_ds_for_view_filter_first(ds, day, coarsen, t_range) ==
    LET ds_day == _filter_timerange(_sel_day(ds, day), t_range)
    IN  IF coarsen # NoneInt /\ coarsen # 0 /\ coarsen > 1
        THEN coarsen_trim_mean(ds_day, coarsen)
        ELSE ds_day

_ds_for_view(ds, day, coarsen, t_range) ==
    _filter_timerange(_prep_day(ds, day, coarsen), t_range)

\* DS of load_data: the file's samples with the hour_of_day coordinate
load_nav(file) ==
    [i \in 1 .. Len(file) |->
        [time |-> file[i].time, hour_of_day |-> hour_of_day(file[i].time), lon |-> file[i].lon]]

\* str() of a numpy datetime64 and pd.to_datetime() of the string
datetime_str(t) == [date |-> t \div DayLen, time_of_day |-> t % DayLen]

pd_to_datetime(s) == s.date * DayLen + s.time_of_day

\* np.unique(DS.time.dt.strftime("%Y-%m-%d").values).tolist()
unique_days(ds) == SortedSeq({strftime_day(ds[i].time) : i \in 1 .. Len(ds)})

\* DS_SIC of load_data: squeeze() drops a time dimension of length one, and
\* where(sic <= 100) masks the rest
load_sic(file) ==
    [time_is_dim |-> Len(file) # 1,
     steps |-> [i \in 1 .. Len(file) |->
                  [time |-> file[i].time,
                   sic |-> IF RatLeqInt(file[i].sic, SicMax) THEN file[i].sic ELSE NaN]]]

\* ------------------------------------------------------------------ state
VARIABLES
    exists,        \* the file system: which candidate paths exist
    navFile,       \* the content of the navigation file
    sicFile,       \* the content of the sea-ice file
    pc,            \* where the module's execution stands
    err,           \* the exception that ended it
    DATASET_PATH,
    SIC_PATH,
    DS,
    DS_SIC,
    DAYS,
    w_day,
    w_coarsen,
    w_pointsize,
    w_alpha,
    w_show_sic,
    w_timerange,
    pending,       \* the watchers of the event being dispatched, still to run
    out,           \* the displayed output of view
    fcall          \* the last direct call of a helper, with its result

env == <<exists, navFile, sicFile>>
paths == <<DATASET_PATH, SIC_PATH>>
sources == <<DS, DS_SIC, DAYS>>
widgets == <<w_day, w_coarsen, w_pointsize, w_alpha, w_show_sic, w_timerange>>
vars == <<exists, navFile, sicFile, pc, err, DATASET_PATH, SIC_PATH, DS, DS_SIC, DAYS,
          w_day, w_coarsen, w_pointsize, w_alpha, w_show_sic, w_timerange, pending, out, fcall>>

CANDIDATE_DATASET_PATHS ==
    <<"data/observations/processed/bbr.nc", "../../../data/observations/processed/bbr.nc">>

CANDIDATE_SIC_PATHS ==
    <<"data/observations/processed/satellite_unified/sic.nc",
      "../../../data/observations/processed/satellite_unified/sic.nc">>

Paths == {CANDIDATE_DATASET_PATHS[i] : i \in 1 .. Len(CANDIDATE_DATASET_PATHS)}
         \cup {CANDIDATE_SIC_PATHS[i] : i \in 1 .. Len(CANDIDATE_SIC_PATHS)}

\* the last candidate that exists
_resolve_path_last(candidates) ==
    LET found == {i \in 1 .. Len(candidates) : exists[candidates[i]]}
    IN  IF found = {} THEN candidates[1]
        ELSE candidates[CHOOSE i \in found : \A j \in found : j <= i]

RECURSIVE resolve_from(_, _)
resolve_from(candidates, i) ==
    IF i > Len(candidates) THEN candidates[1]
    ELSE IF exists[candidates[i]] THEN candidates[i]
    ELSE resolve_from(candidates, i + 1)

_resolve_path(candidates) == resolve_from(candidates, 1)

\* ---------------------------------------------------------------- widgets
\* the values the model's user picks: IntSlider 1..300, IntSlider 1..20,
\* FloatSlider 0.1..1.0 (in percent)
CoarsenChoices == {1, 2, CoarsenDefault}
PointsizeChoices == {PointsizeDefault, PointsizeDefault + 1}
AlphaChoices == {AlphaDefault, 50}

NoSlider == [start |-> NoTime, end |-> NoTime, value |-> <<>>]

\* the slider after _make_timerange(day); an empty slice has no minimum
_make_timerange(day) ==
    LET dsel == _sel_day(DS, day)
        ts == [i \in 1 .. Len(dsel) |-> dsel[i].time]
        t0 == IF dsel = <<>> THEN NoTime ELSE pd_to_datetime(datetime_str(SeqMin(ts)))
        t1 == IF dsel = <<>> THEN NoTime ELSE pd_to_datetime(datetime_str(SeqMax(ts)))
    IN  [start |-> t0, end |-> t1, value |-> <<t0, t1>>]

\* ---------------------------------------------------------- plot builders
build_timeseries(ds_day, size, alpha) ==
    [data |-> ds_day, size |-> size, alpha |-> alpha]

map_points(ds_day, size, alpha) ==
    LET df == SelectSeq(ds_day, LAMBDA r : ~IsNaN(r.lon))
    IN  [data |-> [i \in 1 .. Len(df) |->
                     [longitude |-> df[i].lon, hour_of_day |-> df[i].hour_of_day]],
         size |-> size, alpha |-> alpha]

\* the raster returned in place of the overlay sic * pts
build_map_raster_only(ds_day, ds_sic_day_mean, size, alpha, show_sic) ==
    IF show_sic /\ ds_sic_day_mean # <<>>
    THEN [sic |-> ds_sic_day_mean, pts |-> map_points(<<>>, size, alpha)]
    ELSE [sic |-> <<>>, pts |-> map_points(ds_day, size, alpha)]

\* the map: the point track, under it the raster when there is one (<<>>: none)
build_map(ds_day, ds_sic_day_mean, size, alpha, show_sic) ==
    IF show_sic /\ ds_sic_day_mean # <<>>
    THEN [sic |-> ds_sic_day_mean, pts |-> map_points(ds_day, size, alpha)]
    ELSE [sic |-> <<>>, pts |-> map_points(ds_day, size, alpha)]

ViewArgs(day, coarsen, t_range, pointsize, alpha, show_sic) ==
    [day |-> day, coarsen |-> coarsen, t_range |-> t_range,
     pointsize |-> pointsize, alpha |-> alpha, show_sic |-> show_sic]

\* view: the column (map, time series); .sel(time=...) raises KeyError when
\* squeeze() has dropped the time dimension of DS_SIC
view(day, coarsen, t_range, pointsize, alpha, show_sic) ==
    LET args == ViewArgs(day, coarsen, t_range, pointsize, alpha, show_sic)
        ds_day == _ds_for_view(DS, day, coarsen, t_range)
        ds_sic_day == sel_time_slice(DS_SIC.steps, day_lower(day), day_upper(day))
        ds_sic_day_mean ==
            IF show_sic /\ Len(ds_sic_day) > 0
            THEN <<[sic |-> nanmean([i \in 1 .. Len(ds_sic_day) |-> ds_sic_day[i].sic])]>>
            ELSE <<>>
    IN  IF ~DS_SIC.time_is_dim
        THEN [kind |-> "error", error |-> "KeyError", args |-> args]
        ELSE [kind |-> "column", args |-> args, ds_day |-> ds_day,
              mp |-> build_map(ds_day, ds_sic_day_mean, pointsize + 1, alpha, show_sic),
              ts |-> build_timeseries(ds_day, pointsize, alpha)]

NoOutput == [kind |-> "none"]
NoCall == [op |-> "none"]

\* ----------------------------------------------------------------- inputs
AllExist == [p \in Paths |-> TRUE]

\* the inputs vary one at a time: the file system, the navigation file, the
\* sea-ice file
Inputs ==
    {<<e, RefNav, RefSic>> : e \in [Paths -> BOOLEAN]}
    \cup {<<AllExist, f, RefSic>> : f \in NavFiles}
    \cup {<<AllExist, RefNav, f>> : f \in SicFiles}

ProgramStart(at) ==
    /\ pc = at
    /\ err = ""
    /\ DATASET_PATH = ""
    /\ SIC_PATH = ""
    /\ DS = <<>>
    /\ DS_SIC = [time_is_dim |-> TRUE, steps |-> <<>>]
    /\ DAYS = <<>>
    /\ w_day = NoDay
    /\ w_coarsen = 0
    /\ w_pointsize = 0
    /\ w_alpha = 0
    /\ w_show_sic = FALSE
    /\ w_timerange = NoSlider
    /\ pending = <<>>
    /\ out = NoOutput
    /\ fcall = NoCall

Init ==
    /\ \E i \in Inputs : exists = i[1] /\ navFile = i[2] /\ sicFile = i[3]
    /\ ProgramStart("start")

\* --------------------------------------------------------------- start-up
\* an exception at module level ends the script
Raise(e) ==
    /\ pc' = "failed"
    /\ err' = e

\* lines 62-70
ResolvePaths ==
    /\ pc = "start"
    /\ DATASET_PATH' = _resolve_path(CANDIDATE_DATASET_PATHS)
    /\ SIC_PATH' = _resolve_path(CANDIDATE_SIC_PATHS)
    /\ pc' = "resolved"
    /\ UNCHANGED <<env, err, sources, widgets, pending, out, fcall>>

\* lines 75-95: xr.open_dataset raises on a path that does not exist
LoadData ==
    /\ pc = "resolved"
    /\ IF ~exists[DATASET_PATH] \/ ~exists[SIC_PATH]
       THEN /\ Raise("FileNotFoundError")
            /\ UNCHANGED sources
       ELSE /\ DS' = load_nav(navFile)
            /\ DS_SIC' = load_sic(sicFile)
            /\ DAYS' = unique_days(load_nav(navFile))
            /\ pc' = "loaded"
            /\ err' = err
    /\ UNCHANGED <<env, paths, widgets, pending, out, fcall>>

\* the guard raises on every list of days
no_days_guard_none(days) == FALSE

\* line 100
no_days(days) == Len(days) = 0

\* lines 100-110; DAYS[0] of an empty list raises IndexError
MakeWidgets ==
    /\ pc = "loaded"
    /\ IF no_days(DAYS)
       THEN /\ Raise("RuntimeError")
            /\ UNCHANGED widgets
       ELSE IF DAYS = <<>>
       THEN /\ Raise("IndexError")
            /\ UNCHANGED widgets
       ELSE /\ w_day' = DAYS[1]
            /\ w_coarsen' = CoarsenDefault
            /\ w_pointsize' = PointsizeDefault
            /\ w_alpha' = AlphaDefault
            /\ w_show_sic' = TRUE
            /\ w_timerange' = NoSlider
            /\ pc' = "widgets"
            /\ err' = err
    /\ UNCHANGED <<env, paths, sources, pending, out, fcall>>

\* line 239
InitTimerange ==
    /\ pc = "widgets"
    /\ w_timerange' = _make_timerange(w_day)
    /\ pc' = "ranged"
    /\ UNCHANGED <<env, err, paths, sources, w_day, w_coarsen, w_pointsize, w_alpha,
                   w_show_sic, pending, out, fcall>>

\* lines 272-282: the template's pane evaluates view once
BuildTemplate ==
    /\ pc = "ranged"
    /\ LET o == view(w_day, w_coarsen, w_timerange.value, w_pointsize, w_alpha, w_show_sic)
       IN  IF o.kind = "error"
           THEN /\ Raise(o.error)
                /\ out' = out
           ELSE /\ out' = o
                /\ pc' = "serving"
                /\ err' = err
    /\ UNCHANGED <<env, paths, sources, widgets, pending, fcall>>

\* -------------------------------------------------------------- dashboard
\* view's result stored back into the cached dataset
Render_in_place ==
    /\ out' = view(w_day', w_coarsen', w_timerange'.value, w_pointsize', w_alpha', w_show_sic')
    /\ DS' = _prep_day(DS, w_day', w_coarsen')
    /\ UNCHANGED <<DS_SIC, DAYS>>

\* the pane re-evaluates view on the widgets' values and replaces the output;
\* view reads DS and DS_SIC
Render ==
    /\ out' = view(w_day', w_coarsen', w_timerange'.value, w_pointsize', w_alpha', w_show_sic')
    /\ UNCHANGED sources

Idle == pc = "serving" /\ pending = <<>>

\* view's watcher registered before _on_day_change
day_watchers_view_first == <<"view", "_on_day_change">>

\* the watchers of w_day.value in the order they were registered:
\* _on_day_change at line 209, the pane of view at line 277
day_watchers == <<"_on_day_change", "view">>

SelectDay(d) ==
    /\ Idle
    /\ d # w_day
    /\ w_day' = d
    /\ pending' = day_watchers
    /\ UNCHANGED <<env, pc, err, paths, sources, w_coarsen, w_pointsize, w_alpha,
                   w_show_sic, w_timerange, out, fcall>>

\* _on_day_change: setting w_timerange.value runs view's watcher at once
RunOnDayChange ==
    /\ pc = "serving"
    /\ pending # <<>>
    /\ Head(pending) = "_on_day_change"
    /\ w_timerange' = _make_timerange(w_day)
    /\ UNCHANGED <<w_day, w_coarsen, w_pointsize, w_alpha, w_show_sic>>
    /\ IF w_timerange'.value # w_timerange.value THEN Render ELSE UNCHANGED <<out, sources>>
    /\ pending' = Tail(pending)
    /\ UNCHANGED <<env, pc, err, paths, fcall>>

RunViewWatcher ==
    /\ pc = "serving"
    /\ pending # <<>>
    /\ Head(pending) = "view"
    /\ UNCHANGED widgets
    /\ Render
    /\ pending' = Tail(pending)
    /\ UNCHANGED <<env, pc, err, paths, fcall>>

SetCoarsen(k) ==
    /\ Idle
    /\ k # w_coarsen
    /\ w_coarsen' = k
    /\ UNCHANGED <<w_day, w_pointsize, w_alpha, w_show_sic, w_timerange>>
    /\ Render
    /\ UNCHANGED <<env, pc, err, paths, pending, fcall>>

\* the slider hands over a range inside its bounds
SetTimerange(a, b) ==
    /\ Idle
    /\ w_timerange.start <= a /\ a <= b /\ b <= w_timerange.end
    /\ <<a, b>> # w_timerange.value
    /\ w_timerange' = [w_timerange EXCEPT !.value = <<a, b>>]
    /\ UNCHANGED <<w_day, w_coarsen, w_pointsize, w_alpha, w_show_sic>>
    /\ Render
    /\ UNCHANGED <<env, pc, err, paths, pending, fcall>>

SetPointsize(s) ==
    /\ Idle
    /\ s # w_pointsize
    /\ w_pointsize' = s
    /\ UNCHANGED <<w_day, w_coarsen, w_alpha, w_show_sic, w_timerange>>
    /\ Render
    /\ UNCHANGED <<env, pc, err, paths, pending, fcall>>

SetAlpha(a) ==
    /\ Idle
    /\ a # w_alpha
    /\ w_alpha' = a
    /\ UNCHANGED <<w_day, w_coarsen, w_pointsize, w_show_sic, w_timerange>>
    /\ Render
    /\ UNCHANGED <<env, pc, err, paths, pending, fcall>>

ToggleSic ==
    /\ Idle
    /\ w_show_sic' = ~w_show_sic
    /\ UNCHANGED <<w_day, w_coarsen, w_pointsize, w_alpha, w_timerange>>
    /\ Render
    /\ UNCHANGED <<env, pc, err, paths, pending, fcall>>

Next ==
    \/ ResolvePaths
    \/ LoadData
    \/ MakeWidgets
    \/ InitTimerange
    \/ BuildTemplate
    \/ \E i \in 1 .. Len(DAYS) : SelectDay(DAYS[i])
    \/ RunOnDayChange
    \/ RunViewWatcher
    \/ \E k \in CoarsenChoices : SetCoarsen(k)
    \/ \E a \in w_timerange.start .. w_timerange.end :
          \E b \in a .. w_timerange.end : SetTimerange(a, b)
    \/ \E s \in PointsizeChoices : SetPointsize(s)
    \/ \E a \in AlphaChoices : SetAlpha(a)
    \/ ToggleSic

Spec == Init /\ [][Next]_vars

\* ------------------------------------------------- the helpers called alone
\* the arguments the helpers are called with: None, 0, 1 and factors above 1
CoarsenArgs == {NoneInt, 0, 1, 2, 3, CoarsenDefault}

\* None, and the pairs of bounds (None included) around the file's samples
RangeArgs ==
    LET lo == IF navFile = <<>> THEN 0 ELSE navFile[1].time - 1
        hi == IF navFile = <<>> THEN 1 ELSE navFile[Len(navFile)].time + 1
        B == {NoTime} \cup {t \in lo .. hi : t >= 0}
    IN  {<<>>} \cup (B \X B)

InitHelpers ==
    /\ exists = AllExist
    /\ navFile \in NavFiles
    /\ sicFile = RefSic
    /\ ProgramStart("helpers")

Call_prep_day(day, coarsen) ==
    /\ fcall = NoCall
    /\ fcall' = [op |-> "_prep_day", day |-> day, coarsen |-> coarsen,
                 res |-> _prep_day(load_nav(navFile), day, coarsen)]
    /\ UNCHANGED <<env, pc, err, paths, sources, widgets, pending, out>>

Call_filter_timerange(day, coarsen, t_range) ==
    /\ fcall = NoCall
    /\ LET s == _prep_day(load_nav(navFile), day, coarsen)
           once == _filter_timerange(s, t_range)
       IN  fcall' = [op |-> "_filter_timerange", ds_day |-> s, t_range |-> t_range,
                     once |-> once, twice |-> _filter_timerange(once, t_range)]
    /\ UNCHANGED <<env, pc, err, paths, sources, widgets, pending, out>>

Call_ds_for_view(day, coarsen, t_range) ==
    /\ fcall = NoCall
    /\ fcall' = [op |-> "_ds_for_view", day |-> day, coarsen |-> coarsen, t_range |-> t_range,
                 res |-> _ds_for_view(load_nav(navFile), day, coarsen, t_range)]
    /\ UNCHANGED <<env, pc, err, paths, sources, widgets, pending, out>>

NextHelpers ==
    \/ \E day \in Days, k \in CoarsenArgs : Call_prep_day(day, k)
    \/ \E day \in Days, k \in {1, 2} : \E r \in RangeArgs : Call_filter_timerange(day, k, r)
    \/ \E day \in Days, k \in {1, 2, 3} : \E r \in RangeArgs : Call_ds_for_view(day, k, r)

SpecHelpers == InitHelpers /\ [][NextHelpers]_vars

\* ------------------------------------------------------------- properties
SetMin(S) == CHOOSE x \in S : \A y \in S : x <= y

SetMax(S) == CHOOSE x \in S : \A y \in S : x >= y

\* the timestamps of the records of DS that fall in day d
DayTimes(d) == {DS[i].time : i \in {j \in 1 .. Len(DS) : strftime_day(DS[j].time) = d}}

DaySet == {DAYS[i] : i \in 1 .. Len(DAYS)}

WidgetsExist == pc \in {"widgets", "ranged", "serving"}

Loaded == pc \in {"loaded", "widgets", "ranged", "serving"} \/ (pc = "failed" /\ err # "FileNotFoundError")

C1_Bounds ==
    (pc \in {"ranged", "serving"} /\ pending = <<>>) =>
        /\ w_day \in DaySet
        /\ DayTimes(w_day) # {}
        /\ w_timerange.start = SetMin(DayTimes(w_day))
        /\ w_timerange.end = SetMax(DayTimes(w_day))
        /\ w_timerange.start <= w_timerange.end

C1_Step ==
    ((pending # <<>> /\ pending' = <<>>) \/ (pc = "widgets" /\ pc' = "ranged")) =>
        w_timerange'.value = <<w_timerange'.start, w_timerange'.end>>

\* C1: once the start-up's _make_timerange has run, and whenever no callback is
\* left to run, the selected day is a day of DS with at least one record, the
\* slider's start and end are the minimum and the maximum timestamp of that
\* day's records (start <= end); and the step that completes the start-up's
\* _make_timerange or a day change leaves the slider's value at (start, end).
C1_SliderTracksDay == [](C1_Bounds) /\ [][C1_Step]_vars

C1_Witness ==
    /\ Idle
    /\ Len(DAYS) > 1
    /\ w_day = DAYS[2]
    /\ out.kind = "column"
    /\ out.args.day = w_day
    /\ w_timerange.start < w_timerange.end
    /\ w_timerange.value = <<w_timerange.start, w_timerange.end>>

C3_FilterIdempotent ==
    fcall.op = "_filter_timerange" =>
        /\ fcall.twice = fcall.once
        /\ Len(fcall.twice) = Len(fcall.once)

C3_Witness ==
    /\ fcall.op = "_filter_timerange"
    /\ fcall.t_range # <<>>
    /\ fcall.t_range[1] # NoTime
    /\ fcall.t_range[2] # NoTime
    /\ Len(fcall.once) > 0
    /\ Len(fcall.once) < Len(fcall.ds_day)
    /\ fcall.once[1] # fcall.ds_day[1]

SicStepsIn(d) == {i \in 1 .. Len(DS_SIC.steps) : strftime_day(DS_SIC.steps[i].time) = d}

\* C4: a displayed map whose sea-ice toggle is off has no raster layer, its point
\* track is the one view renders for the same arguments with the toggle on, and
\* with the toggle on the raster is there exactly when DS_SIC has a time step
\* in the day.
C4_ToggleLeavesTrack ==
    out.kind = "column" =>
        LET a == out.args
            flipped == view(a.day, a.coarsen, a.t_range, a.pointsize, a.alpha, ~a.show_sic)
        IN  /\ flipped.mp.pts = out.mp.pts
            /\ out.mp.pts.size = a.pointsize + 1
            /\ out.mp.pts.alpha = a.alpha
            /\ (~a.show_sic) => out.mp.sic = <<>>
            /\ a.show_sic => (out.mp.sic # <<>> <=> SicStepsIn(a.day) # {})

C4_Witness ==
    /\ out.kind = "column"
    /\ ~out.args.show_sic
    /\ out.mp.sic = <<>>
    /\ SicStepsIn(out.args.day) # {}
    /\ Len(out.mp.pts.data) > 0

ResolvedRight(path, candidates) ==
    LET found == {i \in 1 .. Len(candidates) : exists[candidates[i]]}
    IN  IF found = {} THEN path = candidates[1]
        ELSE \E i \in found : path = candidates[i] /\ \A j \in found : i <= j

NoneExists(candidates) == \A i \in 1 .. Len(candidates) : ~exists[candidates[i]]

\* C5: each resolved path is the first candidate, in list order, that exists,
\* or the first candidate when none exists; when no candidate of a dataset
\* exists, loading ends the script with FileNotFoundError, nothing is loaded
\* or displayed, and the dashboard is never served.
C5_MissingFileNeverServes ==
    /\ pc # "start" =>
          /\ ResolvedRight(DATASET_PATH, CANDIDATE_DATASET_PATHS)
          /\ ResolvedRight(SIC_PATH, CANDIDATE_SIC_PATHS)
    /\ (pc \notin {"start", "resolved"}
        /\ (NoneExists(CANDIDATE_DATASET_PATHS) \/ NoneExists(CANDIDATE_SIC_PATHS))) =>
          /\ pc = "failed"
          /\ err = "FileNotFoundError"
          /\ DS = <<>>
          /\ out = NoOutput
    /\ pc = "serving" => exists[DATASET_PATH] /\ exists[SIC_PATH]

C5_Witness ==
    /\ pc = "failed"
    /\ err = "FileNotFoundError"
    /\ NoneExists(CANDIDATE_DATASET_PATHS)
    /\ exists[SIC_PATH]
    /\ DATASET_PATH = CANDIDATE_DATASET_PATHS[1]

\* C6: when the navigation file that was loaded holds no sample, the script
\* ends with RuntimeError with no widget constructed and nothing rendered; and
\* whenever the widgets exist, DAYS is not empty and the selected day is one
\* of DAYS.
C6_NoDaysIsFatal ==
    /\ (navFile = <<>> /\ Loaded /\ pc # "loaded") =>
          /\ pc = "failed"
          /\ err = "RuntimeError"
          /\ w_day = NoDay
          /\ w_timerange = NoSlider
          /\ out = NoOutput
    /\ WidgetsExist => (DAYS # <<>> /\ w_day \in DaySet)

C6_Witness ==
    /\ pc = "failed"
    /\ err = "RuntimeError"
    /\ DAYS = <<>>
    /\ exists[DATASET_PATH]

\* C7: after load_data every sea-ice value of DS_SIC that is not missing lies
\* between 0 and 100.
C7_SicInValidRange ==
    Loaded =>
        \A i \in 1 .. Len(DS_SIC.steps) :
            \/ IsNaN(DS_SIC.steps[i].sic)
            \/ (0 <= DS_SIC.steps[i].sic.n /\ RatLeqInt(DS_SIC.steps[i].sic, SicMax))

\* C8: from load_data on, whatever the widget events and renders, DS and DS_SIC
\* are what load_data made of the files, and the slice a displayed output
\* shows is the slicer's result on the loaded file for the output's
\* (day, coarsen, t_range).
C8_SourcesNeverMutated ==
    Loaded =>
        /\ DS = load_nav(navFile)
        /\ DS_SIC = load_sic(sicFile)
        /\ out.kind = "column" =>
              out.ds_day = _ds_for_view(load_nav(navFile), out.args.day, out.args.coarsen,
                                        out.args.t_range)

C8_Witness ==
    /\ Idle
    /\ Len(DAYS) > 1
    /\ out.kind = "column"
    /\ out.args.day = DAYS[2]
    /\ out.args.coarsen = 2
    /\ ~out.args.show_sic
    /\ out.args.pointsize # PointsizeDefault
    /\ out.args.alpha # AlphaDefault
    /\ Len(out.ds_day) > 0

RangeGiven(r) == r # <<>> /\ r[1] # NoTime /\ r[2] # NoTime

C10_RangeOfDay ==
    out.kind = "column" =>
        LET a == out.args
        IN  /\ DayTimes(a.day) # {}
            /\ a.t_range # <<>>
            /\ SetMin(DayTimes(a.day)) <= a.t_range[1]
            /\ a.t_range[1] <= a.t_range[2]
            /\ a.t_range[2] <= SetMax(DayTimes(a.day))

C10_Current ==
    Idle => out.args = ViewArgs(w_day, w_coarsen, w_timerange.value, w_pointsize, w_alpha,
                                w_show_sic)

C10_Step ==
    (pending # <<>> /\ pending' = <<>>) =>
        /\ out'.kind = "column"
        /\ out'.args.day = w_day'
        /\ out'.args.t_range = <<SetMin(DayTimes(w_day')), SetMax(DayTimes(w_day'))>>
        /\ out'.ds_day = _prep_day(DS, w_day', w_coarsen')

====
